---- MODULE Spec2Model ----
(***************************************************************************)
(* Model of the Seal GitHub actions (opvia/seal-github-actions): one run   *)
(* of the upload-artifacts action or of the codebase-snapshot action       *)
(* against the Seal HTTP API.                                              *)
(*                                                                         *)
(* A run is an async function.  A state of the model is the run suspended  *)
(* at an await: pc names the call that is in flight.  Each action is the   *)
(* arrival of the awaited result followed by everything the code does up   *)
(* to the next await: the response handling of the API function, the       *)
(* bookkeeping of run() and the issue of the next request.                 *)
(***************************************************************************)
EXTENDS Integers, Sequences, FiniteSets, TLC

VARIABLES
    action,                 \* which entry point runs: "artifact" | "snapshot"
    env,                    \* the action inputs as the workflow supplies them
    github,                 \* github.context and GITHUB_WORKSPACE
    templateId,             \* inputs.sealTemplateId
    pc,                     \* the call in flight, or "done"
    foundFiles,             \* the paths to upload, in discovery order
    nFiles,                 \* foundFiles.length
    fileIdx,                \* position of the for..of loop over foundFiles
    entity,                 \* the entity returned by findSealEntity
    changeSetIndex,         \* result of getSealEntityChangeSetIndex
    fileId,                 \* id returned by uploadSealFile for the current file
    uploadedFileRefs,       \* references collected so far
    processingFailedCount,  \* per-file failures counted so far
    archiveTasks,           \* archivePromises: one state per prior reference
    response,               \* the response held by the API function that ran last
    requests,               \* HTTP requests issued so far, in order
    attempts,               \* files for which uploadSealFile was called, in order
    sealFilenames,          \* the remote name derived for each of them, in order
    snapshotDir,            \* scratch directory: "none" | "created" | "removed" | "left"
    outcome,                \* "running" | "noop" | "success" | "failed"
    failureMessage,         \* message of the error that failed the run
    failureParts,           \* the values interpolated into that message
    sealField,              \* the platform's value of the target field
    sealArchived,           \* ids the platform has archived
    sealChangeSet,          \* ids the platform has added to the changeset
    sealFiles,              \* number of file entities the platform created
    call,                   \* a call of one API function taken on its own
    returned,               \* what each execution of that call returned or threw
    race                    \* two runs for one pull request, taken together

vars == << action, env, github, templateId, pc, foundFiles, nFiles, fileIdx,
           entity, changeSetIndex, fileId, uploadedFileRefs,
           processingFailedCount, archiveTasks, response, requests, attempts,
           sealFilenames, snapshotDir, outcome, failureMessage, failureParts,
           sealField, sealArchived, sealChangeSet, sealFiles, call, returned,
           race >>

----------------------------------------------------------------------------
(* Bounds *)

MaxFiles == 2       \* files the glob may find
MaxResults == 2     \* entities in a search response
MaxPrior == 2       \* references in the prior value of the target field

----------------------------------------------------------------------------
(* Values *)

\* undefined, null or '' where the code tests a string with `!x`
NoId == ""
\* the null version of a SealFileReference
NullVersion == -1
\* a version property that is present but not a number
NonNumeric == -2

\* an input that consists of white space only
Blank == " "

\* the template id a workflow asks for; the entities of a response carry
\* this one, another one or none
TemplateInputs == {"tpl-A"}

\* the action inputs a workflow may supply: "" is an input that is not set
TokenInputs == {"", Blank, "token"}
UrlInputs == {"", "https://seal.example/api/"}
TemplateIdInputs == TemplateInputs \cup {"", Blank}
PatternInputs == {"", Blank, "**/report.txt out/*"}
ArchiveTypeInputs == {"", "tar", "tar.gz", "rar"}

Env(token, url, template, patterns, archiveType) ==
    [ seal_api_token |-> token, seal_api_base_url |-> url,
      seal_template_id |-> template, artifact_patterns |-> patterns,
      archive_type |-> archiveType ]

\* the inputs each action reads; the other action's input stays unset
ArtifactEnvs ==
    { Env(k, u, t, p, "") :
          k \in TokenInputs, u \in UrlInputs, t \in TemplateIdInputs, p \in PatternInputs }
SnapshotEnvs ==
    { Env(k, u, t, "", a) :
          k \in TokenInputs, u \in UrlInputs, t \in TemplateIdInputs,
          a \in ArchiveTypeInputs }

\* github.context.eventName, payload.pull_request (present or not) with its
\* number, head.ref and base.ref, and process.env.GITHUB_WORKSPACE; 0 and ""
\* are the values that `!x` takes for missing
EventNames == {"pull_request", "pull_request_target", "push"}
PrNumbers == {0, 7}
HeadRefs == {"", "feature"}
BaseRefs == {"", "main"}
Workspaces == {"", "/github/workspace"}

GithubContexts ==
    [ eventName : EventNames, pull_request : BOOLEAN, number : PrNumbers,
      headRef : HeadRefs, baseRef : BaseRefs, workspace : Workspaces ]

\* PullRequestContext, reduced to what the actions read; NoContext is null
PullRequestContext(prNumber, workspace) ==
    [present |-> TRUE, prNumber |-> prNumber, workspace |-> workspace]
NoContext == [present |-> FALSE, prNumber |-> 0, workspace |-> ""]

\* the files of the workspace that the patterns can match, in the order in
\* which the globber walks them; the first two have the same base name
WorkspaceFiles ==
    << [dir |-> "build", base |-> "report.txt"],
       [dir |-> "out", base |-> "report.txt"],
       [dir |-> "out", base |-> "log.txt"],
       [dir |-> "out", base |-> "trace.txt"] >>

\* the results globber.glob() may return: distinct paths in walk order; the
\* model takes the first n files of the walk
GlobResults ==
    { SubSeq(WorkspaceFiles, 1, n) : n \in 0..MaxFiles }

\* new Date().valueOf(), read once per run
Timestamp == "now"
EntityTemplates == {"tpl-A", "tpl-B", NoId}
\* the id an entity of a response carries, or none
EntityIds == {"e1", NoId}
PriorIds == {"f1", "f2", NoId}
\* ids the platform assigns to new file entities, in creation order
NewIds == << "u1", "u2", "u3", "u4", "u5", "u6", "u7", "u8" >>

RECURSIVE SeqsUpTo(_, _)
SeqsUpTo(S, n) ==
    IF n = 0 THEN { << >> }
    ELSE LET shorter == SeqsUpTo(S, n - 1)
         IN  shorter \cup { Append(s, x) : s \in shorter, x \in S }

\* SealFileReference
Ref(id, version) == [id |-> id, version |-> version]

PriorRefs == { Ref(i, 1) : i \in PriorIds }

\* entity.fields?.[fieldName]?.value: << >> when the field is absent,
\* << value >> when it is present
FieldValues == { << >> } \cup { << v >> : v \in SeqsUpTo(PriorRefs, MaxPrior) }

\* SealEntityLite, reduced to what the actions read
Entity(id, template, field) == [id |-> id, template |-> template, field |-> field]

NoEntity == Entity(NoId, NoId, << >>)

\* the entities of one search response: any ids and templates in any order;
\* to keep the responses few, the entities of one response carry the same
\* value in the target field
SearchLists ==
    { [i \in 1..Len(l) |-> Entity(l[i][1], l[i][2], f)] :
          l \in SeqsUpTo(EntityIds \X EntityTemplates, MaxResults), f \in FieldValues }

----------------------------------------------------------------------------
(* HTTP *)

\* 0 stands for a request that got no response (transport error)
Statuses == {0, 200, 201, 404, 500}

validateStatus(status) == status >= 200 /\ status < 500

\* axios rejects when there is no response or validateStatus is false
AxiosRaises(status) == status = 0 \/ ~validateStatus(status)

NoResponse == [status |-> 0, data |-> [kind |-> "none"]]
ErrorBody == [kind |-> "error"]

SearchResponses ==
    { [status |-> 200, data |-> [kind |-> "array", items |-> l]] : l \in SearchLists }
    \cup { [status |-> 200, data |-> [kind |-> "object"]] }
    \cup { [status |-> s, data |-> ErrorBody] : s \in Statuses \ {200} }

\* an index property that is present but not a string
NonStringIndex == "<number>"

ChangeSetResponses ==
    { [status |-> 200, data |-> [kind |-> "object", index |-> i]] :
          i \in {"cs-1", NoId, NonStringIndex} }
    \cup { [status |-> s, data |-> ErrorBody] : s \in Statuses \ {200} }

\* 204 is a 2xx status that the upload does not accept
UploadResponses(newId) ==
    { [status |-> s, data |-> [kind |-> "object", id |-> i]] :
          s \in {200, 201}, i \in {newId, NoId} }
    \cup { [status |-> s, data |-> ErrorBody] : s \in (Statuses \cup {204}) \ {200, 201} }

StatusResponses == { [status |-> s, data |-> ErrorBody] : s \in Statuses }

VersionResponses ==
    { [status |-> 200, data |-> [kind |-> "object", version |-> v]] :
          v \in {1, NullVersion, NonNumeric} }
    \cup { [status |-> s, data |-> ErrorBody] : s \in Statuses \ {200} }

----------------------------------------------------------------------------
(* Error messages, without their interpolated parts *)

MsgTemplateRequired == "Seal Template ID is required for filtering search results."
MsgSearchRaised == "Failed to search for Seal entity: Axios error"
MsgSearchStatus == "Seal API search failed with status"
MsgSearchFormat == "Invalid response format from Seal API search."
MsgNotFound == "No Seal entity found matching title and template ID."
MsgAmbiguous == "Found multiple entities matching title and template ID. Cannot link artifact/snapshot."
MsgChangeSet == "[getSealEntityChangeSetIndex] API Error"
MsgChangeSetIndex == "[getSealEntityChangeSetIndex] Missing or invalid changeset index in API response."
MsgUploadRaised == "Failed to upload file: Axios error"
MsgUploadStatus == "Seal API file upload failed with status"
MsgUploadId == "Missing file ID in Seal API response after upload."
MsgHash == "Error reading file for CRC32C calculation"
MsgAdd == "[addEntityToChangeSet] API Error"
MsgLinkRaised == "Failed to link files to entity field: Axios error"
MsgLinkStatus == "Seal API linking failed with status. Files were uploaded but not linked."
MsgProcessing == "artifact processing step(s) failed."
MsgArchiveCreate == "Archive creation failed"
MsgMkdtemp == "mkdtemp failed"
MsgArchive == "Failed to archive entity"
MsgInputRequired == "Input required and not supplied"
MsgArchiveType == "Unsupported archive_type. Must be 'zip' or 'tar'."
MsgTokenRequired == "Seal API token is required."

\* the messages that tell the operator that files were uploaded but not linked
OrphanNotice(msg) == msg \in { MsgLinkStatus }

Ok(value) == [ok |-> TRUE, value |-> value, error |-> ""]
Err(msg) == [ok |-> FALSE, value |-> NoId, error |-> msg]

\* `#${prNumber}`, the search term and a part of the resolver's messages
SearchTerm(prNumber) == "#" \o ToString(prNumber)

\* the values that findSealEntity interpolates into the message of the
\* error it throws
ErrorParts(msg, resp, searchTerm, tid) ==
    IF msg \in {MsgNotFound, MsgAmbiguous} THEN << searchTerm, tid >>
    ELSE IF msg = MsgSearchStatus THEN << ToString(resp.status) >>
    ELSE << >>
----------------------------------------------------------------------------
(* The inputs and the pull-request context, github-context.ts *)

\* String.prototype.trim on the modelled inputs
Trim(v) == IF v = Blank THEN "" ELSE v

getInput_optional(raw, required) == Ok(Trim(raw))

\* core.getInput: an unset required input throws; the value is trimmed
getInput(raw, required) ==
    IF required /\ raw = "" THEN Err(MsgInputRequired) ELSE Ok(Trim(raw))

\* the first error of a sequence of results, or Ok of the given value
RECURSIVE FirstError(_, _)
FirstError(results, value) ==
    IF results = << >> THEN Ok(value)
    ELSE IF ~Head(results).ok THEN Head(results)
    ELSE FirstError(Tail(results), value)

getUploadArtifactsInputs(e) ==
    LET sealApiToken == getInput(e.seal_api_token, TRUE)
        sealApiBaseUrl == getInput(e.seal_api_base_url, TRUE)
        sealTemplateId == getInput(e.seal_template_id, TRUE)
        artifactPatterns == getInput(e.artifact_patterns, TRUE)
    IN  FirstError(<< sealApiToken, sealApiBaseUrl, sealTemplateId, artifactPatterns >>,
                   [ sealApiToken |-> sealApiToken.value,
                     sealApiBaseUrl |-> sealApiBaseUrl.value,
                     sealTemplateId |-> sealTemplateId.value,
                     artifactPatterns |-> artifactPatterns.value,
                     archiveType |-> "" ])

getCodebaseSnapshotInputs(e) ==
    LET sealApiToken == getInput(e.seal_api_token, TRUE)
        sealApiBaseUrl == getInput(e.seal_api_base_url, TRUE)
        sealTemplateId == getInput(e.seal_template_id, TRUE)
        given == getInput(e.archive_type, FALSE).value
        archiveType == IF given = "" THEN "zip" ELSE given
    IN  FirstError(<< sealApiToken, sealApiBaseUrl, sealTemplateId,
                      IF archiveType # "zip" /\ archiveType # "tar"
                      THEN Err(MsgArchiveType) ELSE Ok(archiveType) >>,
                   [ sealApiToken |-> sealApiToken.value,
                     sealApiBaseUrl |-> sealApiBaseUrl.value,
                     sealTemplateId |-> sealTemplateId.value,
                     artifactPatterns |-> "",
                     archiveType |-> archiveType ])

isPullRequestEvent(g) ==
    g.eventName = "pull_request" \/ g.eventName = "pull_request_target"

getPullRequestContext_anyPayload(g) ==
    IF ~isPullRequestEvent(g) THEN NoContext
    ELSE IF g.number = 0 \/ g.headRef = "" \/ g.baseRef = "" \/ g.workspace = ""
         THEN NoContext
    ELSE PullRequestContext(g.number, g.workspace)

getPullRequestContext(g) ==
    IF ~isPullRequestEvent(g) THEN NoContext
    ELSE IF ~g.pull_request THEN NoContext
    ELSE IF g.number = 0 \/ g.headRef = "" \/ g.baseRef = "" \/ g.workspace = ""
         THEN NoContext
    ELSE PullRequestContext(g.number, g.workspace)

\* inputs.artifactPatterns.split(/\s+/).filter(p => p.length > 0), told apart
\* only by whether a pattern is left
HasPatterns(artifactPatterns) == artifactPatterns # ""

\* the remote name the artifact action derives for a found file
sealFilename(filePath, prNumber, timestamp) ==
    [ prefix |-> "artifact", originalFilename |-> filePath.base,
      prNumber |-> prNumber, timestamp |-> timestamp ]

\* getArchiveFormat(archiveType).extension
ArchiveExtension(archiveType) == IF archiveType = "tar" THEN "tar.gz" ELSE "zip"

\* the archive that createArchive writes into the scratch directory
ArchivePath(archiveType, prNumber, timestamp) ==
    [ dir |-> "snapshotDir",
      base |-> [ repoName |-> "repo", prNumber |-> prNumber, timestamp |-> timestamp,
                 extension |-> ArchiveExtension(archiveType) ] ]

----------------------------------------------------------------------------
(* The API functions of seal-api.ts, as functions of the response that the *)
(* awaited request produced.  Each returns Ok(value) or Err(message): a    *)
(* thrown Error is the Err result.                                         *)

\* the filter callback of findSealEntity
MatchesTemplate(e, tid) == e.template = tid

findSealEntity_firstMatch(resp, tid) ==
    IF AxiosRaises(resp.status) THEN Err(MsgSearchRaised)
    ELSE IF resp.status # 200 THEN Err(MsgSearchStatus)
    ELSE IF resp.data.kind # "array" THEN Err(MsgSearchFormat)
    ELSE LET matchingEntities ==
                 SelectSeq(resp.data.items, LAMBDA e : MatchesTemplate(e, tid))
         IN  IF Len(matchingEntities) = 0 THEN Err(MsgNotFound)
             ELSE Ok(matchingEntities[1])

findSealEntity_emptyOk(resp, tid) ==
    IF AxiosRaises(resp.status) THEN Err(MsgSearchRaised)
    ELSE IF resp.status # 200 THEN Err(MsgSearchStatus)
    ELSE IF resp.data.kind # "array" THEN Err(MsgSearchFormat)
    ELSE LET matchingEntities ==
                 SelectSeq(resp.data.items, LAMBDA e : MatchesTemplate(e, tid))
         IN  IF Len(matchingEntities) = 0 THEN Ok(NoEntity)
             ELSE IF Len(matchingEntities) > 1 THEN Err(MsgAmbiguous)
             ELSE Ok(matchingEntities[1])

\* findSealEntity from the arrival of the search response on
findSealEntity(resp, tid) ==
    IF AxiosRaises(resp.status) THEN Err(MsgSearchRaised)
    ELSE IF resp.status # 200 THEN Err(MsgSearchStatus)
    ELSE IF resp.data.kind # "array" THEN Err(MsgSearchFormat)
    ELSE LET matchingEntities ==
                 SelectSeq(resp.data.items, LAMBDA e : MatchesTemplate(e, tid))
         IN  IF Len(matchingEntities) = 0 THEN Err(MsgNotFound)
             ELSE IF Len(matchingEntities) > 1 THEN Err(MsgAmbiguous)
             ELSE Ok(matchingEntities[1])

getSealEntityChangeSetIndex_anyStatus(resp) ==
    IF AxiosRaises(resp.status) THEN Err(MsgChangeSet)
    ELSE IF resp.status # 200 THEN Ok(NoId)
    ELSE IF resp.data.index = NoId \/ resp.data.index = NonStringIndex
         THEN Err(MsgChangeSetIndex)
    ELSE Ok(resp.data.index)

getSealEntityChangeSetIndex_untyped(resp) ==
    IF AxiosRaises(resp.status) THEN Err(MsgChangeSet)
    ELSE IF resp.status # 200 THEN Err(MsgChangeSet)
    ELSE Ok(resp.data.index)

getSealEntityChangeSetIndex(resp) ==
    IF AxiosRaises(resp.status) THEN Err(MsgChangeSet)
    ELSE IF resp.status # 200 THEN Err(MsgChangeSet)
    ELSE IF resp.data.index = NoId \/ resp.data.index = NonStringIndex
         THEN Err(MsgChangeSetIndex)
    ELSE Ok(resp.data.index)

uploadSealFile(resp) ==
    IF AxiosRaises(resp.status) THEN Err(MsgUploadRaised)
    ELSE IF resp.status # 200 /\ resp.status # 201 THEN Err(MsgUploadStatus)
    ELSE IF resp.data.id = NoId THEN Err(MsgUploadId)
    ELSE Ok(resp.data.id)

addEntityToChangeSet_lenient(resp) == Ok(NoId)

addEntityToChangeSet(resp) ==
    IF AxiosRaises(resp.status) THEN Err(MsgAdd)
    ELSE IF resp.status # 200 THEN Err(MsgAdd)
    ELSE Ok(NoId)

getSealFileVersion_unchecked(resp) ==
    IF AxiosRaises(resp.status) THEN NullVersion
    ELSE IF resp.status # 200 THEN NullVersion
    ELSE resp.data.version

\* never raises: every failure is the null version
getSealFileVersion(resp) ==
    IF AxiosRaises(resp.status) THEN NullVersion
    ELSE IF resp.status # 200 THEN NullVersion
    ELSE IF resp.data.version = NullVersion THEN NullVersion
    ELSE IF resp.data.version >= 0 THEN resp.data.version
    ELSE NullVersion

linkFilesToEntityField_delivered(resp) ==
    IF AxiosRaises(resp.status) THEN Err(MsgLinkRaised)
    ELSE Ok(NoId)

linkFilesToEntityField_2xx(resp) ==
    IF AxiosRaises(resp.status) THEN Err(MsgLinkRaised)
    ELSE IF resp.status >= 300 THEN Err(MsgLinkStatus)
    ELSE Ok(NoId)

\* the part of linkFilesToEntityField that follows the PATCH request
linkFilesToEntityField(resp) ==
    IF AxiosRaises(resp.status) THEN Err(MsgLinkRaised)
    ELSE IF resp.status # 200 THEN Err(MsgLinkStatus)
    ELSE Ok(NoId)

\* the settled value of one archive promise of archiveEntities
ArchiveResult(status) ==
    IF AxiosRaises(status) THEN "failed"
    ELSE IF status = 200 THEN "success"
    ELSE "failed"
----------------------------------------------------------------------------
(* The run as a record, so that a continuation is a function on runs *)

Cur ==
    [ action |-> action, env |-> env, github |-> github,
      templateId |-> templateId, pc |-> pc, foundFiles |-> foundFiles,
      nFiles |-> nFiles, fileIdx |-> fileIdx, entity |-> entity,
      changeSetIndex |-> changeSetIndex, fileId |-> fileId,
      uploadedFileRefs |-> uploadedFileRefs,
      processingFailedCount |-> processingFailedCount,
      archiveTasks |-> archiveTasks, response |-> response,
      requests |-> requests, attempts |-> attempts,
      sealFilenames |-> sealFilenames,
      snapshotDir |-> snapshotDir, outcome |-> outcome,
      failureMessage |-> failureMessage, failureParts |-> failureParts,
      sealField |-> sealField,
      sealArchived |-> sealArchived, sealChangeSet |-> sealChangeSet,
      sealFiles |-> sealFiles ]

Apply(s) ==
    /\ action' = s.action
    /\ env' = s.env
    /\ github' = s.github
    /\ templateId' = s.templateId
    /\ pc' = s.pc
    /\ foundFiles' = s.foundFiles
    /\ nFiles' = s.nFiles
    /\ fileIdx' = s.fileIdx
    /\ entity' = s.entity
    /\ changeSetIndex' = s.changeSetIndex
    /\ fileId' = s.fileId
    /\ uploadedFileRefs' = s.uploadedFileRefs
    /\ processingFailedCount' = s.processingFailedCount
    /\ archiveTasks' = s.archiveTasks
    /\ response' = s.response
    /\ requests' = s.requests
    /\ attempts' = s.attempts
    /\ sealFilenames' = s.sealFilenames
    /\ snapshotDir' = s.snapshotDir
    /\ outcome' = s.outcome
    /\ failureMessage' = s.failureMessage
    /\ failureParts' = s.failureParts
    /\ sealField' = s.sealField
    /\ sealArchived' = s.sealArchived
    /\ sealChangeSet' = s.sealChangeSet
    /\ sealFiles' = s.sealFiles
    /\ UNCHANGED << call, returned, race >>

\* an HTTP request: op, the entity id in its URL, the file it carries,
\* and the value of its JSON body
Req(op, id, file, value) == [op |-> op, id |-> id, file |-> file, value |-> value]

Issue(s, req) == [s EXCEPT !.requests = Append(@, req)]

Finally_onSuccessOnly(s) ==
    IF s.action = "snapshot" /\ s.snapshotDir = "created" /\ s.outcome = "success"
    THEN [s EXCEPT !.pc = "cleanup"]
    ELSE [s EXCEPT !.pc = "done"]

\* the finally block of the snapshot action; the artifact action has none
Finally(s) ==
    IF s.action = "snapshot" /\ s.snapshotDir = "created"
    THEN [s EXCEPT !.pc = "cleanup"]
    ELSE [s EXCEPT !.pc = "done"]

\* the catch block of run(): core.setFailed(error.message)
SetFailed(s, msg) ==
    Finally([s EXCEPT !.outcome = "failed", !.failureMessage = msg])

\* run() reaches its last statement
Completed(s) == Finally([s EXCEPT !.outcome = "success"])

\* an early `return` of run()
NoOp(s) == Finally([s EXCEPT !.outcome = "noop"])

\* an error thrown by run() outside its try block: the promise of
\* `void run()` rejects and the process exits with a failure
Unhandled(s, msg) ==
    [s EXCEPT !.outcome = "failed", !.failureMessage = msg, !.pc = "done"]

\* the inputs object of the run
Inputs(s) ==
    IF s.action = "artifact"
    THEN getUploadArtifactsInputs(s.env)
    ELSE getCodebaseSnapshotInputs(s.env)

\* the prContext object of the run
PrContext(s) == getPullRequestContext(s.github)

Startup_globAnyway(s) ==
    LET inputs == Inputs(s)
    IN  IF ~inputs.ok THEN Unhandled(s, inputs.error)
        ELSE LET r == [s EXCEPT !.templateId = inputs.value.sealTemplateId]
             IN  IF ~PrContext(s).present THEN NoOp(r)
                 ELSE IF s.action = "snapshot" THEN [r EXCEPT !.pc = "mkdtemp"]
                 ELSE [r EXCEPT !.pc = "glob"]

Startup_contextUnchecked(s) ==
    LET inputs == Inputs(s)
    IN  IF ~inputs.ok THEN Unhandled(s, inputs.error)
        ELSE LET r == [s EXCEPT !.templateId = inputs.value.sealTemplateId]
             IN  IF s.action = "snapshot" THEN [r EXCEPT !.pc = "mkdtemp"]
                 ELSE IF ~HasPatterns(inputs.value.artifactPatterns) THEN NoOp(r)
                 ELSE [r EXCEPT !.pc = "glob"]

\* run() from its first statement to its first await
Startup(s) ==
    LET inputs == Inputs(s)
    IN  IF ~inputs.ok THEN Unhandled(s, inputs.error)
        ELSE LET r == [s EXCEPT !.templateId = inputs.value.sealTemplateId]
             IN  IF ~PrContext(s).present THEN NoOp(r)
                 ELSE IF s.action = "snapshot" THEN [r EXCEPT !.pc = "mkdtemp"]
                 ELSE IF ~HasPatterns(inputs.value.artifactPatterns) THEN NoOp(r)
                 ELSE [r EXCEPT !.pc = "glob"]

\* findSealEntity up to its await: the search request is issued
CallFindSealEntity(s) ==
    IF s.templateId = NoId THEN SetFailed(s, MsgTemplateRequired)
    ELSE IF Inputs(s).value.sealApiToken = "" THEN SetFailed(s, MsgTokenRequired)
    ELSE [Issue(s, Req("search", NoId, 0, << >>)) EXCEPT !.pc = "search"]

\* uploadSealFile up to its first await: the CRC32C hash of the file
CallUploadSealFile(s, i) ==
    [s EXCEPT !.fileIdx = i, !.fileId = NoId,
              !.attempts = Append(@, i),
              !.sealFilenames =
                  Append(@, IF s.action = "artifact"
                            THEN sealFilename(s.foundFiles[i], PrContext(s).prNumber,
                                              Timestamp)
                            ELSE s.foundFiles[i].base),
              !.pc = "hash"]

\* linkFilesToEntityField up to its await: the PATCH request is issued
\* with the given references as the whole value
CallLinkFilesToEntityField_append(s, fileReferences) ==
    IF Len(fileReferences) = 0 THEN Completed(s)
    ELSE [Issue(s, Req("patch", s.entity.id, 0,
                       (IF s.entity.field = << >> THEN << >> ELSE s.entity.field[1])
                           \o fileReferences))
             EXCEPT !.pc = "patch"]

CallLinkFilesToEntityField_sendEmpty(s, fileReferences) ==
    [Issue(s, Req("patch", s.entity.id, 0, fileReferences))
        EXCEPT !.pc = "patch"]

CallLinkFilesToEntityField(s, fileReferences) ==
    IF Len(fileReferences) = 0 THEN Completed(s)
    ELSE [Issue(s, Req("patch", s.entity.id, 0, fileReferences))
             EXCEPT !.pc = "patch"]

\* getSealFileVersion up to its await
CallGetSealFileVersion(s) ==
    [Issue(s, Req("version", s.fileId, s.fileIdx, << >>)) EXCEPT !.pc = "version"]

AfterArchive_linkPrior(s) ==
    IF s.action = "artifact"
    THEN CallLinkFilesToEntityField(
             s, IF s.entity.field = << >> THEN << >> ELSE s.entity.field[1])
    ELSE CallGetSealFileVersion(s)

\* what run() does once archiveEntities has returned
AfterArchive(s) ==
    IF s.action = "artifact"
    THEN CallLinkFilesToEntityField(s, s.uploadedFileRefs)
    ELSE CallGetSealFileVersion(s)

IssueArchives_noSkip(s, fileRefs, i) ==
    [s EXCEPT !.requests =
                  @ \o [k \in 1..Len(fileRefs) |->
                            Req("archive", fileRefs[k].id, 0, << >>)]]

RECURSIVE IssueArchives(_, _, _)
IssueArchives(s, fileRefs, i) ==
    IF i > Len(fileRefs) THEN s
    ELSE IssueArchives(
             IF fileRefs[i].id = NoId THEN s
             ELSE Issue(s, Req("archive", fileRefs[i].id, 0, << >>)),
             fileRefs, i + 1)

Settled_any(tasks) == \E i \in 1..Len(tasks) : tasks[i] # "pending"

\* Promise.allSettled resolves when no promise is pending
Settled(tasks) == \A i \in 1..Len(tasks) : tasks[i] # "pending"

AwaitAllSettled_hang(s) == s

AwaitAllSettled_all(s) ==
    IF \E i \in 1..Len(s.archiveTasks) : s.archiveTasks[i] = "failed"
    THEN SetFailed(s, MsgArchive)
    ELSE IF Settled(s.archiveTasks) THEN AfterArchive(s) ELSE s

\* `await Promise.allSettled(archivePromises); return`: archiveEntities
\* returns once every promise has settled, whatever the outcomes
AwaitAllSettled(s) ==
    IF Settled(s.archiveTasks) THEN AfterArchive(s) ELSE s

\* archiveEntities up to `await Promise.allSettled`: fileRefs.map runs every
\* callback up to its own await, so every request is issued before any
\* response is handled
archiveEntities(s, existingFileRefs) ==
    IF existingFileRefs = << >> \/ Len(existingFileRefs[1]) = 0
    THEN AfterArchive(s)
    ELSE LET fileRefs == existingFileRefs[1]
             tasks == [i \in 1..Len(fileRefs) |->
                          IF fileRefs[i].id = NoId THEN "skipped" ELSE "pending"]
         IN  AwaitAllSettled([IssueArchives(s, fileRefs, 1)
                                 EXCEPT !.archiveTasks = tasks, !.pc = "archive"])

LinkStep_noCheck(s) == archiveEntities(s, s.entity.field)

LinkStep_anyFailureFatal(s) ==
    IF s.processingFailedCount > 0
    THEN SetFailed(s, MsgProcessing)
    ELSE IF Len(s.uploadedFileRefs) = 0 THEN NoOp(s)
    ELSE archiveEntities(s, s.entity.field)

\* Step 4 of the artifact action, reached when the for loop ends
LinkStep(s) ==
    IF Len(s.uploadedFileRefs) = 0
    THEN IF s.processingFailedCount > 0
         THEN SetFailed(s, MsgProcessing)
         ELSE NoOp(s)
    ELSE archiveEntities(s, s.entity.field)

NextFile_break(s) ==
    IF s.fileIdx < s.nFiles /\ Len(s.uploadedFileRefs) = 0
    THEN CallUploadSealFile(s, s.fileIdx + 1)
    ELSE LinkStep(s)

\* the for..of loop moves to the next file, or ends
NextFile(s) ==
    IF s.fileIdx < s.nFiles
    THEN CallUploadSealFile(s, s.fileIdx + 1)
    ELSE LinkStep(s)

FileFailed_uncounted(s) == NextFile(s)

\* the catch block inside the loop
FileFailed(s) ==
    NextFile([s EXCEPT !.processingFailedCount = @ + 1])

FileError_swallowed(s, msg) ==
    IF s.action = "artifact" THEN FileFailed(s)
    ELSE archiveEntities(s, s.entity.field)

FileError_propagate(s, msg) == SetFailed(s, msg)

FileError_retryOnce(s, msg) ==
    IF Len(SelectSeq(s.attempts, LAMBDA i : i = s.fileIdx)) < 2
    THEN CallUploadSealFile(s, s.fileIdx)
    ELSE IF s.action = "artifact" THEN FileFailed(s) ELSE SetFailed(s, msg)

\* an error raised while a file is processed: caught per file by the
\* artifact action, fatal in the snapshot action
FileError(s, msg) ==
    IF s.action = "artifact" THEN FileFailed(s) ELSE SetFailed(s, msg)
----------------------------------------------------------------------------
(* Initial state: the process of the action has started in its workflow *)

\* no second run
NoRace == [runs |-> << >>, applied |-> << >>]

\* no API function is called on its own
NoCall ==
    [ op |-> "none", apiUrl |-> << >>, templateId |-> NoId,
      response |-> NoResponse, fileReferences |-> << >>, field |-> << >> ]

Init ==
    /\ action \in {"artifact", "snapshot"}
    /\ env \in (IF action = "artifact" THEN ArtifactEnvs ELSE SnapshotEnvs)
    /\ github \in GithubContexts
    /\ templateId = NoId
    /\ pc = "init"
    /\ foundFiles = << >>
    /\ nFiles = 0
    /\ fileIdx = 0
    /\ entity = NoEntity
    /\ changeSetIndex = NoId
    /\ fileId = NoId
    /\ uploadedFileRefs = << >>
    /\ processingFailedCount = 0
    /\ archiveTasks = << >>
    /\ response = NoResponse
    /\ requests = << >>
    /\ attempts = << >>
    /\ sealFilenames = << >>
    /\ snapshotDir = "none"
    /\ outcome = "running"
    /\ failureMessage = ""
    /\ failureParts = << >>
    /\ sealField = << >>
    /\ sealArchived = {}
    /\ sealChangeSet = {}
    /\ sealFiles = 0
    /\ call = NoCall
    /\ returned = << >>
    /\ race = NoRace

----------------------------------------------------------------------------
(* Actions *)

\* run(): the Initialization group, then the first await of the try block
Initialization ==
    /\ pc = "init"
    /\ Apply(Startup(Cur))

\* artifact action, Step 1: globber.glob() returns the found files
GlobDone ==
    /\ pc = "glob"
    /\ \E files \in GlobResults :
          Apply(IF Len(files) = 0 THEN NoOp(Cur)
                ELSE CallFindSealEntity([Cur EXCEPT !.foundFiles = files,
                                                    !.nFiles = Len(files)]))

\* snapshot action, Step 1: fs.mkdtemp settles
MkdtempDone ==
    /\ pc = "mkdtemp"
    /\ \E ok \in BOOLEAN :
          Apply(IF ok THEN [Cur EXCEPT !.snapshotDir = "created", !.pc = "createArchive"]
                ELSE SetFailed(Cur, MsgMkdtemp))

\* snapshot action, Step 1: createArchive settles
CreateArchiveDone ==
    /\ pc = "createArchive"
    /\ \E ok \in BOOLEAN :
          Apply(IF ok
                THEN CallFindSealEntity(
                         [Cur EXCEPT !.foundFiles =
                                         << ArchivePath(Inputs(Cur).value.archiveType,
                                                        PrContext(Cur).prNumber,
                                                        Timestamp) >>,
                                     !.nFiles = 1])
                ELSE SetFailed(Cur, MsgArchiveCreate))

\* Step 2: the search response arrives; findSealEntity returns or throws;
\* on return getSealEntityChangeSetIndex issues its request
SearchResponse ==
    /\ pc = "search"
    /\ \E resp \in SearchResponses :
          LET r == findSealEntity(resp, templateId)
              s == [Cur EXCEPT !.response = resp]
          IN  Apply(IF r.ok
                    THEN [Issue([s EXCEPT !.entity = r.value,
                                          !.sealField = r.value.field],
                                Req("changeset", r.value.id, 0, << >>))
                             EXCEPT !.pc = "changeset"]
                    ELSE SetFailed([s EXCEPT !.failureParts =
                                                ErrorParts(r.error, resp,
                                                           SearchTerm(PrContext(s).prNumber),
                                                           templateId)],
                                   r.error))

ChangeSetResponse_goOn ==
    /\ pc = "changeset"
    /\ \E resp \in ChangeSetResponses :
          LET r == getSealEntityChangeSetIndex(resp)
              s == [Cur EXCEPT !.response = resp]
          IN  Apply(CallUploadSealFile([s EXCEPT !.changeSetIndex = r.value], 1))

\* Step 2b: the changeset response arrives; Step 3 starts with the first file
ChangeSetResponse ==
    /\ pc = "changeset"
    /\ \E resp \in ChangeSetResponses :
          LET r == getSealEntityChangeSetIndex(resp)
              s == [Cur EXCEPT !.response = resp]
          IN  Apply(IF r.ok
                    THEN CallUploadSealFile([s EXCEPT !.changeSetIndex = r.value], 1)
                    ELSE SetFailed(s, r.error))

\* uploadSealFile: calculateCRC32CHash settles; on success the POST is issued
HashDone ==
    /\ pc = "hash"
    /\ \E ok \in BOOLEAN :
          Apply(IF ok
                THEN [Issue(Cur, Req("upload", NoId, fileIdx, << >>)) EXCEPT !.pc = "upload"]
                ELSE FileError(Cur, MsgHash))

\* uploadSealFile: the upload response arrives; on success
\* addEntityToChangeSet issues its request
UploadResponse ==
    /\ pc = "upload"
    /\ \E resp \in UploadResponses(NewIds[sealFiles + 1]) :
          LET r == uploadSealFile(resp)
              s == [Cur EXCEPT !.response = resp,
                               !.sealFiles = IF resp.status \in {200, 201} THEN @ + 1 ELSE @]
          IN  Apply(IF r.ok
                    THEN [Issue([s EXCEPT !.fileId = r.value],
                                Req("add", r.value, fileIdx, << >>))
                             EXCEPT !.pc = "add"]
                    ELSE FileError(s, r.error))

\* addEntityToChangeSet: the response arrives.  The artifact action goes on
\* to the version of the file, the snapshot action to archiveEntities
AddResponse ==
    /\ pc = "add"
    /\ \E resp \in StatusResponses :
          LET r == addEntityToChangeSet(resp)
              s == [Cur EXCEPT !.response = resp,
                               !.sealChangeSet =
                                   IF resp.status = 200 THEN @ \cup { fileId } ELSE @]
          IN  Apply(IF r.ok
                    THEN IF action = "artifact"
                         THEN CallGetSealFileVersion(s)
                         ELSE archiveEntities(s, s.entity.field)
                    ELSE FileError(s, r.error))

VersionResponse_unshift ==
    /\ pc = "version"
    /\ \E resp \in VersionResponses :
          LET fileVersion == getSealFileVersion(resp)
              s == [Cur EXCEPT !.response = resp,
                               !.uploadedFileRefs = << Ref(fileId, fileVersion) >> \o @]
          IN  Apply(IF action = "artifact"
                    THEN NextFile(s)
                    ELSE CallLinkFilesToEntityField(s, s.uploadedFileRefs))

\* getSealFileVersion: the response arrives.  The artifact action collects
\* the reference and moves on, the snapshot action links its one reference
VersionResponse ==
    /\ pc = "version"
    /\ \E resp \in VersionResponses :
          LET fileVersion == getSealFileVersion(resp)
              s == [Cur EXCEPT !.response = resp,
                               !.uploadedFileRefs = Append(@, Ref(fileId, fileVersion))]
          IN  Apply(IF action = "artifact"
                    THEN NextFile(s)
                    ELSE CallLinkFilesToEntityField(s, s.uploadedFileRefs))

\* archiveEntities: one archive promise settles; when it is the last one,
\* Promise.allSettled resolves and run() goes on
ArchiveResponse ==
    /\ pc = "archive"
    /\ \E i \in 1..Len(archiveTasks), status \in Statuses :
          /\ archiveTasks[i] = "pending"
          /\ LET s == [Cur EXCEPT !.archiveTasks[i] = ArchiveResult(status),
                                  !.sealArchived =
                                      IF status = 200
                                      THEN @ \cup { entity.field[1][i].id }
                                      ELSE @]
             IN  Apply(AwaitAllSettled(s))

PatchResponse_rollback ==
    /\ pc = "patch"
    /\ \E resp \in StatusResponses :
          LET r == linkFilesToEntityField(resp)
              s == [Cur EXCEPT !.response = resp,
                               !.sealField =
                                   IF resp.status = 200
                                   THEN << requests[Len(requests)].value >>
                                   ELSE @,
                               !.sealArchived = IF resp.status = 200 THEN @ ELSE {}]
          IN  Apply(IF r.ok THEN Completed(s) ELSE SetFailed(s, r.error))

\* linkFilesToEntityField: the PATCH response arrives; run() ends
PatchResponse ==
    /\ pc = "patch"
    /\ \E resp \in StatusResponses :
          LET r == linkFilesToEntityField(resp)
              s == [Cur EXCEPT !.response = resp,
                               !.sealField =
                                   IF resp.status = 200
                                   THEN << requests[Len(requests)].value >>
                                   ELSE @]
          IN  Apply(IF r.ok THEN Completed(s) ELSE SetFailed(s, r.error))

CleanupDone_failOnError ==
    /\ pc = "cleanup"
    /\ \E ok \in BOOLEAN :
          Apply(IF ok
                THEN [Cur EXCEPT !.snapshotDir = "removed", !.pc = "done"]
                ELSE [Cur EXCEPT !.snapshotDir = "left", !.pc = "done",
                                 !.outcome = "failed",
                                 !.failureMessage = "Failed to remove temporary directory"])

\* snapshot action, Step 5: fs.rm settles; a failure is only logged
CleanupDone ==
    /\ pc = "cleanup"
    /\ \E ok \in BOOLEAN :
          Apply([Cur EXCEPT !.snapshotDir = IF ok THEN "removed" ELSE "left",
                            !.pc = "done"])

Next ==
    \/ Initialization
    \/ GlobDone
    \/ MkdtempDone
    \/ CreateArchiveDone
    \/ SearchResponse
    \/ ChangeSetResponse
    \/ HashDone
    \/ UploadResponse
    \/ AddResponse
    \/ VersionResponse
    \/ ArchiveResponse
    \/ PatchResponse
    \/ CleanupDone

Spec == Init /\ [][Next]_vars

\* every awaited call settles: the step that handles its result is taken
SpecFair == Init /\ [][Next]_vars /\ WF_vars(Next)
----------------------------------------------------------------------------
(* The API client on its own: one function of seal-api.ts is called with   *)
(* a base URL, the request is answered, and the function returns or        *)
(* throws.  The call is executed twice against the same answer.            *)

\* base URLs as strings of characters: "", "/", "h", "h/", "/h" and "h//"
ApiUrls ==
    { << >>, << "/" >>, << "h" >>, << "h", "/" >>, << "/", "h" >>,
      << "h", "/", "/" >> }

\* url.endsWith('/')
EndsWithSlash(url) == Len(url) > 0 /\ url[Len(url)] = "/"

normalizeApiUrl_asIs(url) == url

normalizeApiUrl(url) == IF EndsWithSlash(url) THEN url ELSE Append(url, "/")

\* what each function appends to the base URL, with its parameter in braces
Path(op) ==
    CASE op = "search" -> "entities/search"
      [] op = "changeset" -> "entities/{entityId}/change-set"
      [] op = "add" -> "entities/{entityIdToAdd}/add-to-change-set"
      [] op = "upload" -> "files"
      [] op = "version" -> "entities/{fileId}"
      [] op = "patch" -> "entities/{entityId}/fields/{fieldName}"
      [] op = "archive" -> "entities/{entityId}/archive"

\* `${baseUrl}...`
RequestUrl(op, apiUrl) == normalizeApiUrl(apiUrl) \o << Path(op) >>

\* the functions whose failure is an error of the caller
FatalOps == {"search", "changeset", "upload", "add", "patch"}
ClientOps == FatalOps \cup {"version", "archive"}

ClientResponses(op) ==
    CASE op = "search" -> SearchResponses
      [] op = "changeset" -> ChangeSetResponses
      [] op = "upload" -> UploadResponses(NewIds[1])
      [] op = "version" -> VersionResponses
      [] OTHER -> StatusResponses

ResolverOutcomes_anyMatch(resp, tid) ==
    IF findSealEntity(resp, tid).error = MsgAmbiguous
    THEN { Ok(resp.data.items[i]) :
               i \in { k \in 1..Len(resp.data.items) :
                          MatchesTemplate(resp.data.items[k], tid) } }
    ELSE { findSealEntity(resp, tid) }

\* the outcomes one execution of the resolver can have for an answer
ResolverOutcomes(resp, tid) == { findSealEntity(resp, tid) }

\* the outcomes one execution of a call can have
Outcomes(c) ==
    CASE c.op = "search" -> ResolverOutcomes(c.response, c.templateId)
      [] c.op = "changeset" -> { getSealEntityChangeSetIndex(c.response) }
      [] c.op = "upload" -> { uploadSealFile(c.response) }
      [] c.op = "add" -> { addEntityToChangeSet(c.response) }
      [] c.op = "patch" -> { linkFilesToEntityField(c.response) }
      [] c.op = "version" -> { Ok(getSealFileVersion(c.response)) }
      [] c.op = "archive" -> { Ok(ArchiveResult(c.response.status)) }

\* the reference lists linkFilesToEntityField is called with: none, one
\* reference
ClientFileReferences == { << >>, << Ref("u1", 1) >> }

\* the requests one execution of the call sends: linkFilesToEntityField
\* sends its PATCH unless it returned early, every other function sends one
\* request
Sent(c) ==
    IF c.op = "patch"
    THEN CallLinkFilesToEntityField(Cur, c.fileReferences).requests
    ELSE << Req(c.op, NoId, 0, << >>) >>

InitClient ==
    /\ \E op \in ClientOps, u \in ApiUrls :
          \E r \in ClientResponses(op),
             t \in (IF op = "search" THEN EntityTemplates \ {NoId} ELSE {NoId}),
             refs \in (IF op = "patch" THEN ClientFileReferences ELSE {<< >>}),
             f \in (IF op = "patch" THEN FieldValues ELSE {<< >>}) :
              /\ call = [ op |-> op, apiUrl |-> u, templateId |-> t,
                          response |-> r, fileReferences |-> refs, field |-> f ]
              /\ sealField = f
    /\ returned = << >>
    /\ action = "artifact"
    /\ env = Env("", "", "", "", "")
    /\ github = [ eventName |-> "push", pull_request |-> FALSE, number |-> 0,
                  headRef |-> "", baseRef |-> "", workspace |-> "" ]
    /\ templateId = NoId
    /\ pc = "client"
    /\ foundFiles = << >>
    /\ nFiles = 0
    /\ fileIdx = 0
    /\ entity = NoEntity
    /\ changeSetIndex = NoId
    /\ fileId = NoId
    /\ uploadedFileRefs = << >>
    /\ processingFailedCount = 0
    /\ archiveTasks = << >>
    /\ response = NoResponse
    /\ requests = << >>
    /\ attempts = << >>
    /\ sealFilenames = << >>
    /\ snapshotDir = "none"
    /\ outcome = "running"
    /\ failureMessage = ""
    /\ failureParts = << >>
    /\ sealArchived = {}
    /\ sealChangeSet = {}
    /\ sealFiles = 0
    /\ race = NoRace

\* one execution of the call: the request goes to the URL built from the
\* base URL, the answer arrives, the function returns or throws
Execute ==
    /\ pc = "client"
    /\ Len(returned) < 2
    /\ LET sent == Sent(call)
       IN  IF Len(sent) = 0
           THEN /\ returned' = Append(returned,
                                      [ url |-> << >>, ok |-> TRUE,
                                        value |-> NoId, error |-> "" ])
                /\ UNCHANGED sealField
           ELSE /\ \E r \in Outcomes(call) :
                      returned' = Append(returned,
                                        [ url |-> RequestUrl(call.op, call.apiUrl),
                                          ok |-> r.ok, value |-> r.value,
                                          error |-> r.error ])
                /\ sealField' =
                      IF call.op = "patch" /\ call.response.status = 200
                      THEN << sent[Len(sent)].value >>
                      ELSE sealField
    /\ UNCHANGED << action, env, github, templateId, pc, foundFiles, nFiles,
                    fileIdx, entity, changeSetIndex, fileId, uploadedFileRefs,
                    processingFailedCount, archiveTasks, response, requests,
                    attempts, sealFilenames, snapshotDir, outcome,
                    failureMessage, failureParts, sealArchived,
                    sealChangeSet, sealFiles, call, race >>

NextClient == Execute

SpecClient == InitClient /\ [][NextClient]_vars
----------------------------------------------------------------------------
(* Properties *)

Issued(op) == \E k \in 1..Len(requests) : requests[k].op = op

IdsRequested(op) ==
    LET sel == SelectSeq(requests, LAMBDA r : r.op = op)
    IN  [k \in 1..Len(sel) |-> sel[k].id]

\* the prior value of the target field, as the resolved entity carries it
PriorValue == IF entity.field = << >> THEN << >> ELSE entity.field[1]

\* the ids of the prior references that have one, in field order
PriorIdsToArchive ==
    LET valid == SelectSeq(PriorValue, LAMBDA ref : ref.id # NoId)
    IN  [k \in 1..Len(valid) |-> valid[k].id]

\* the positions of a search response whose entity has the wanted template
Matches(resp) ==
    IF resp.status = 200 /\ resp.data.kind = "array"
    THEN { i \in 1..Len(resp.data.items) : resp.data.items[i].template = templateId }
    ELSE {}

\* the search has been answered and nothing was requested since, so that
\* response still holds the search response
SearchAnswered ==
    /\ pc # "search"
    /\ requests # << >>
    /\ \/ requests[Len(requests)].op = "search"
       \/ pc = "changeset"

\* findSealEntity returned: run() went on to the changeset lookup
Resolved == Issued("changeset")

\* the PATCH has been answered; nothing is requested after it, so that
\* response holds the PATCH response
PatchAnswered == Issued("patch") /\ pc # "patch"

\* the run is between the calls made for one file
InFileStep == pc \in {"hash", "upload", "add", "version"}

\* the artifact action has left its for loop
LoopEnded == action = "artifact" /\ fileIdx >= 1 /\ ~InFileStep

\* C1: on a search response that is a list, findSealEntity returns an entity
\* iff exactly one element of the list has the given template id, and then
\* returns that element; with no such element it fails with the not-found
\* error, with two or more with the ambiguity error
C1_ResolverExactlyOne ==
    (SearchAnswered /\ response.status = 200 /\ response.data.kind = "array") =>
        LET m == Matches(response)
        IN  /\ Resolved <=> Cardinality(m) = 1
            /\ Resolved => \A i \in m : entity = response.data.items[i]
            /\ Cardinality(m) = 0 =>
                   outcome = "failed" /\ failureMessage = MsgNotFound
            /\ Cardinality(m) >= 2 =>
                   outcome = "failed" /\ failureMessage = MsgAmbiguous

\* Scenario 1: two entities, only the second has the template; it is returned
C1_Witness ==
    /\ SearchAnswered /\ Resolved
    /\ response.data.kind = "array"
    /\ Len(response.data.items) = 2
    /\ Matches(response) = {2}
    /\ entity = response.data.items[2]

\* C2: the value of the PATCH is exactly the list of references collected in
\* the run, in order, and has no element of the prior value of the field; a
\* PATCH answered with 200 leaves exactly that list in the field
C2_PatchReplaces ==
    \A k \in 1..Len(requests) :
        requests[k].op = "patch" =>
            /\ uploadedFileRefs # << >>
            /\ requests[k].value = uploadedFileRefs
            /\ \A i \in 1..Len(requests[k].value), j \in 1..Len(PriorValue) :
                   requests[k].value[i] # PriorValue[j]
            /\ (PatchAnswered /\ response.status = 200) =>
                   sealField = << uploadedFileRefs >>

\* Scenario 4 with two new references: a non-empty prior value is replaced
C2_Witness ==
    /\ PatchAnswered /\ response.status = 200
    /\ Len(PriorValue) >= 1
    /\ Len(uploadedFileRefs) = 2
    /\ sealField = << uploadedFileRefs >>

\* C3: when the PATCH is issued, an archive request has been issued before it
\* for every prior reference that carries an id (the code skips, as invalid,
\* an element without one) and every archive promise has settled
C3_ArchiveBeforePatch ==
    \A k \in 1..Len(requests) :
        requests[k].op = "patch" =>
            /\ IdsRequested("archive") = PriorIdsToArchive
            /\ \A j \in 1..Len(requests) : requests[j].op = "archive" => j < k
            /\ Len(archiveTasks) = Len(PriorValue)
            /\ \A i \in 1..Len(archiveTasks) :
                   IF PriorValue[i].id = NoId
                   THEN archiveTasks[i] = "skipped"
                   ELSE archiveTasks[i] \in {"success", "failed"}

\* the PATCH is issued after two archive requests, one of which failed
C3_Witness ==
    /\ Issued("patch")
    /\ Len(PriorIdsToArchive) = 2
    /\ archiveTasks = << "failed", "success" >>

\* C4: in the artifact action, after each iteration references + failures is
\* the number of files processed, at the end of the loop references is files
\* minus failures, and no error of a file is the error of the run
C4_LoopAccounting ==
    action = "artifact" =>
        /\ InFileStep =>
               Len(uploadedFileRefs) + processingFailedCount = fileIdx - 1
        /\ LoopEnded =>
               /\ fileIdx = nFiles
               /\ Len(uploadedFileRefs) = nFiles - processingFailedCount
               /\ failureMessage \notin
                      {MsgHash, MsgUploadRaised, MsgUploadStatus, MsgUploadId, MsgAdd}

\* a loop over two files ends with one reference and one failure
C4_Witness ==
    /\ LoopEnded
    /\ nFiles = 2
    /\ Len(uploadedFileRefs) = 1
    /\ processingFailedCount = 1

\* C5: in the artifact action uploadSealFile is called once for each found
\* file, in discovery order, whatever happened to the files before it
C5_EveryFileAttempted ==
    action = "artifact" =>
        /\ attempts = [k \in 1..Len(attempts) |-> k]
        /\ InFileStep => Len(attempts) = fileIdx
        /\ LoopEnded => attempts = [k \in 1..nFiles |-> k]

\* Scenario 3, shifted: the first of two files fails, the second is uploaded
C5_Witness ==
    /\ LoopEnded
    /\ nFiles = 2
    /\ attempts = << 1, 2 >>
    /\ processingFailedCount = 1
    /\ Len(uploadedFileRefs) = 1
    /\ uploadedFileRefs[1].id = fileId

\* C6: when the search is answered with anything but a list holding exactly
\* one entity of the template, the run is reported failed at once and no
\* request is issued from then on
C6_ResolutionFatal ==
    [][ /\ (pc = "search" /\ pc' # "search" /\ Cardinality(Matches(response')) # 1) =>
            (outcome' = "failed" /\ requests' = requests)
        /\ (outcome = "failed" /\ ~Resolved) =>
            (outcome' = "failed" /\ requests' = requests /\ ~Resolved') ]_vars

\* an ambiguous search ended the run with the search as its only request
C6_Witness ==
    /\ pc = "done"
    /\ outcome = "failed"
    /\ Cardinality(Matches(response)) = 2
    /\ Len(requests) = 1
    /\ requests[1].op = "search"

\* C7: a run whose PATCH was answered with anything but 200 is reported
\* failed; a run that issued a PATCH is reported successful only when the
\* PATCH was answered with 200
C7_PatchFailureFatal ==
    /\ (PatchAnswered /\ response.status # 200) => outcome = "failed"
    /\ (Issued("patch") /\ outcome = "success") =>
           (PatchAnswered /\ response.status = 200)

\* a PATCH answered 201 fails the run
C7_Witness ==
    /\ PatchAnswered
    /\ response.status = 201
    /\ outcome = "failed"

\* C8: whenever the PATCH fails, the error reported for the run says that
\* files were uploaded but not linked
C8_OrphanNoticeOnEveryPatchFailure ==
    (PatchAnswered /\ response.status # 200) => OrphanNotice(failureMessage)

\* C9: when archive requests fail, every prior reference with an id still
\* had its request issued, the run is not failed by archival, it goes on to
\* the PATCH (through the version request in the snapshot action), and its
\* outcome is decided by the PATCH alone
C9_ArchiveFailuresNonFatal ==
    (\E i \in 1..Len(archiveTasks) : archiveTasks[i] = "failed") =>
        /\ IdsRequested("archive") = PriorIdsToArchive
        /\ failureMessage # MsgArchive
        /\ ~PatchAnswered => outcome = "running"
        /\ (\A i \in 1..Len(archiveTasks) : archiveTasks[i] # "pending") =>
               (Issued("patch") \/ (action = "snapshot" /\ pc = "version"))
        /\ PatchAnswered =>
               /\ outcome = "success" <=> response.status = 200
               /\ outcome = "failed" <=> response.status # 200

\* both archive requests failed and the run succeeded
C9_Witness ==
    /\ archiveTasks = << "failed", "failed" >>
    /\ PatchAnswered
    /\ outcome = "success"

\* C10: at most one PATCH is issued per run, it is the last request, and
\* when it is issued every file has been attempted and no call for a file
\* is in flight
C10_OnePatchAfterFiles ==
    \A k \in 1..Len(requests) :
        requests[k].op = "patch" =>
            /\ k = Len(requests)
            /\ \A j \in 1..Len(requests) : requests[j].op = "patch" => j = k
            /\ ~InFileStep
            /\ attempts = [i \in 1..nFiles |-> i]
            /\ Len(uploadedFileRefs) + processingFailedCount = nFiles

\* the PATCH follows the processing of two files, one of which failed
C10_Witness ==
    /\ pc = "patch"
    /\ nFiles = 2
    /\ processingFailedCount = 1
    /\ Len(SelectSeq(requests, LAMBDA r : r.op = "upload")) = 2

\* C11: in the artifact action, when files were found and the loop ended
\* without a collected reference, every file was counted as failed, the run
\* is reported failed with the count of failed steps, and neither an archive
\* request nor a PATCH is ever issued
C11_AllFilesFailed ==
    /\ (LoopEnded /\ Len(uploadedFileRefs) = 0) =>
           /\ nFiles >= 1
           /\ processingFailedCount = nFiles
           /\ outcome = "failed"
           /\ failureMessage = MsgProcessing
    /\ (action = "artifact" /\ nFiles >= 1 /\ ~InFileStep
            /\ Len(uploadedFileRefs) = 0) =>
           (~Issued("archive") /\ ~Issued("patch"))

\* two files were found, both failed after the entity was resolved with a
\* non-empty prior value, and the run is over
C11_Witness ==
    /\ LoopEnded
    /\ pc = "done"
    /\ nFiles = 2
    /\ Len(uploadedFileRefs) = 0
    /\ processingFailedCount = 2
    /\ Len(PriorIdsToArchive) >= 1
    /\ outcome = "failed"

\* the inputs were read without an error
InputsRead == Inputs(Cur).ok

\* getPullRequestContext returns a context
ContextPresent == PrContext(Cur).present

\* the artifact action has left its Initialization group and is in its try block
ArtifactStarted ==
    action = "artifact" /\ pc # "init" /\ InputsRead /\ ContextPresent

\* C12 as stated: in the artifact action with its other inputs set and a
\* pull-request context, a run whose patterns input holds no pattern, or
\* whose patterns match no file, ends as a successful no-op without a request
C12_EmptyPatternsNoOp ==
    (/\ action = "artifact" /\ pc = "done" /\ ContextPresent
     /\ env.seal_api_token # "" /\ env.seal_api_base_url # ""
     /\ env.seal_template_id # ""
     /\ (Trim(env.artifact_patterns) = "" \/ nFiles = 0)) =>
        (outcome = "noop" /\ requests = << >>)

\* C12, amended: in the artifact action, once the inputs have been read and
\* a pull-request context is present, a run whose patterns input leaves no
\* pattern (white space only) or whose patterns match no file ends as a
\* successful no-op and never issues a request; an unset or empty patterns
\* input fails the run as a missing required input
C12_NoPatternOrNoFileNoOp ==
    /\ (ArtifactStarted
            /\ (\/ ~HasPatterns(Inputs(Cur).value.artifactPatterns)
                \/ (pc # "glob" /\ nFiles = 0))) =>
           (pc = "done" /\ outcome = "noop" /\ requests = << >>)
    /\ (action = "artifact" /\ pc # "init" /\ env.artifact_patterns = "") =>
           (outcome = "failed" /\ requests = << >>)

\* the patterns matched no file: the run ended as a no-op after the glob
C12_Witness ==
    /\ ArtifactStarted
    /\ HasPatterns(Inputs(Cur).value.artifactPatterns)
    /\ nFiles = 0
    /\ pc = "done"
    /\ outcome = "noop"

\* the patterns input is white space: the run ended as a no-op before the glob
C12_WitnessBlank ==
    /\ ArtifactStarted
    /\ env.artifact_patterns = Blank
    /\ pc = "done"
    /\ outcome = "noop"

\* C13: in the artifact action the failures of files fail the run only when
\* no reference was collected: once the loop has ended with a reference the
\* run goes on to the PATCH, and when the PATCH is answered with 200 the run
\* is reported successful whatever the number of failed files
C13_PartialFailureNotFatal ==
    action = "artifact" =>
        /\ failureMessage = MsgProcessing => Len(uploadedFileRefs) = 0
        /\ (LoopEnded /\ Len(uploadedFileRefs) >= 1 /\ ~PatchAnswered) =>
               (outcome = "running" /\ pc \in {"archive", "patch"})
        /\ (Len(uploadedFileRefs) >= 1 /\ PatchAnswered /\ response.status = 200) =>
               outcome = "success"

\* Scenario 3: one of two files failed, the other was linked, the run succeeded
C13_Witness ==
    /\ action = "artifact"
    /\ nFiles = 2
    /\ processingFailedCount = 1
    /\ Len(uploadedFileRefs) = 1
    /\ PatchAnswered /\ response.status = 200
    /\ outcome = "success"

\* one of the reasons for which there is no pull-request context
NoPullRequestContext ==
    \/ github.eventName \notin {"pull_request", "pull_request_target"}
    \/ ~github.pull_request
    \/ github.number = 0
    \/ github.headRef = ""
    \/ github.baseRef = ""
    \/ github.workspace = ""

\* C14 as stated: a run without pull-request context ends as a successful
\* no-op without a request
C14_NoContextNoOp ==
    (NoPullRequestContext /\ pc = "done") =>
        (outcome = "noop" /\ requests = << >>)

\* C14, amended: the inputs are read before the context.  When they were
\* read without error and there is no pull-request context, for whichever
\* reason, the run of either action is over after its first step, as a
\* successful no-op, without a request and without a scratch directory; when
\* reading them fails the run is failed, with or without context
C14_NoContextNoOpOnceInputsRead ==
    /\ (pc # "init" /\ InputsRead /\ NoPullRequestContext) =>
           /\ pc = "done"
           /\ outcome = "noop"
           /\ requests = << >>
           /\ snapshotDir = "none"
    /\ (pc # "init" /\ ~InputsRead) =>
           (pc = "done" /\ outcome = "failed" /\ requests = << >>)

\* a pull_request event without GITHUB_WORKSPACE: the snapshot action ends
\* as a no-op
C14_Witness ==
    /\ action = "snapshot"
    /\ InputsRead
    /\ github.eventName = "pull_request" /\ github.pull_request
    /\ github.number # 0 /\ github.headRef # "" /\ github.baseRef # ""
    /\ github.workspace = ""
    /\ pc = "done"
    /\ outcome = "noop"

\* C15: whatever answers the version request of an uploaded file, the step
\* that handles it collects the reference of the file, with the version of
\* a 200 answer that carries a number and with the null version otherwise
\* (no response, a status other than 200, a missing, null or non-numeric
\* version), counts no failure and does not fail the run
C15_VersionFetchNeverFatal ==
    [][ pc = "version" =>
            LET resp == response'
                numeric == resp.status = 200 /\ resp.data.version >= 0
            IN  /\ uploadedFileRefs' =
                       Append(uploadedFileRefs,
                              Ref(fileId, IF numeric THEN resp.data.version
                                          ELSE NullVersion))
                /\ processingFailedCount' = processingFailedCount
                /\ outcome' = "running"
                /\ failureMessage' = failureMessage ]_vars

\* Scenario 6: the version request of the first file was answered 404; its
\* reference is collected with the null version and no failure is counted
C15_Witness ==
    /\ action = "artifact"
    /\ requests # << >>
    /\ requests[Len(requests)].op = "version"
    /\ pc # "version"
    /\ response.status = 404
    /\ Len(uploadedFileRefs) = 1
    /\ uploadedFileRefs[1] = Ref(NewIds[1], NullVersion)
    /\ processingFailedCount = 0

\* the ids the platform has assigned to the files uploaded in this run
UploadedIds == { NewIds[n] : n \in 1..sealFiles }

\* C16: every reference in the value of the PATCH carries an id that the
\* platform assigned to a file uploaded earlier in this run, the id for which
\* the run then issued its add-to-changeset request; none carries an id of
\* the prior value of the field or the id of the entity
C16_PayloadFromThisRun ==
    \A k \in 1..Len(requests) :
        requests[k].op = "patch" =>
            \A i \in 1..Len(requests[k].value) :
                LET id == requests[k].value[i].id
                IN  /\ id \in UploadedIds
                    /\ \E j \in 1..(k - 1) :
                           /\ requests[j].op = "add"
                           /\ requests[j].id = id
                           /\ \E u \in 1..(j - 1) :
                                  /\ requests[u].op = "upload"
                                  /\ requests[u].file = requests[j].file
                    /\ \A p \in 1..Len(PriorValue) : PriorValue[p].id # id
                    /\ id # entity.id

\* the PATCH carries the two files of the run while the field held two others
C16_Witness ==
    /\ Issued("patch")
    /\ Len(PriorIdsToArchive) = 2
    /\ sealFiles = 2
    /\ Len(uploadedFileRefs) = 2
    /\ requests[Len(requests)].value = uploadedFileRefs
    /\ uploadedFileRefs[1].id = NewIds[1]
    /\ uploadedFileRefs[2].id = NewIds[2]

\* the ids of the references collected so far
CollectedIds == { uploadedFileRefs[i].id : i \in 1..Len(uploadedFileRefs) }

C18_RemoteNamesDistinct ==
    action = "artifact" =>
        \A i, j \in 1..Len(sealFilenames) :
            foundFiles[attempts[i]] # foundFiles[attempts[j]] =>
                sealFilenames[i] # sealFilenames[j]

\* C19: in the snapshot action, once the scratch directory exists, a run
\* that has its outcome (failed at any step, or successful) goes through the
\* removal of the directory before it ends: it never ends with a directory
\* whose removal was not attempted, and the removal is its last step
C19_ScratchRemovalAttempted ==
    action = "snapshot" =>
        /\ pc = "done" => snapshotDir \in {"none", "removed", "left"}
        /\ (snapshotDir = "created" /\ outcome # "running") => pc = "cleanup"
        /\ snapshotDir \in {"removed", "left"} =>
               (pc = "done" /\ outcome \in {"success", "failed"})
        /\ (snapshotDir = "none" /\ pc = "done") => requests = << >>

\* the add-to-changeset request failed after the upload; the run ended
\* failed and the scratch directory was removed
C19_Witness ==
    /\ action = "snapshot"
    /\ pc = "done"
    /\ outcome = "failed"
    /\ failureMessage = MsgAdd
    /\ sealFiles = 1
    /\ snapshotDir = "removed"

\* the number of requests of a kind issued so far
Count(op) == Len(SelectSeq(requests, LAMBDA r : r.op = op))

\* the number of requests of a kind issued so far for one file
CountFor(op, i) == Len(SelectSeq(requests, LAMBDA r : r.op = op /\ r.file = i))

\* C20: whatever the answers, a run issues at most one search, one
\* changeset lookup and one PATCH, for each found file at most one upload,
\* one add-to-changeset and one version request (and calls uploadSealFile
\* once), and for each id no more archive requests than the prior value of
\* the field has elements with that id
C20_NoRetry ==
    /\ Count("search") <= 1
    /\ Count("changeset") <= 1
    /\ Count("patch") <= 1
    /\ \A k \in 1..Len(requests) :
           requests[k].op \in {"upload", "add", "version"} =>
               requests[k].file \in 1..nFiles
    /\ \A i \in 1..nFiles :
           /\ CountFor("upload", i) <= 1
           /\ CountFor("add", i) <= 1
           /\ CountFor("version", i) <= 1
           /\ Len(SelectSeq(attempts, LAMBDA a : a = i)) <= 1
    /\ Count("archive") <= Len(PriorValue)
    /\ \A id \in PriorIds :
           Len(SelectSeq(requests, LAMBDA r : r.op = "archive" /\ r.id = id))
               <= Len(SelectSeq(PriorValue, LAMBDA ref : ref.id = id))

\* a run of two files in which the first upload, both archive requests and
\* the PATCH failed: nine requests, none repeated
C20_Witness ==
    /\ action = "artifact"
    /\ pc = "done"
    /\ outcome = "failed"
    /\ nFiles = 2
    /\ processingFailedCount = 1
    /\ archiveTasks = << "failed", "failed" >>
    /\ PatchAnswered /\ response.status = 500
    /\ Len(requests) = 9

\* the search was answered with a list in which two or more entities have
\* the wanted template
AmbiguousAnswer ==
    /\ SearchAnswered
    /\ Cardinality(Matches(response)) >= 2

\* C21: when two or more entities of the search response have the wanted
\* template, the message of the error that findSealEntity throws names the
\* id of each of them
C21_AmbiguityErrorListsIds ==
    AmbiguousAnswer =>
        /\ failureMessage = MsgAmbiguous
        /\ \A i \in Matches(response) :
               \E p \in 1..Len(failureParts) :
                   failureParts[p] = response.data.items[i].id

\* the changeset lookup has been answered and nothing was requested since,
\* so that response still holds its answer
ChangeSetAnswered ==
    /\ pc # "changeset"
    /\ requests # << >>
    /\ requests[Len(requests)].op = "changeset"

\* the answer to the changeset lookup is not a 200 with a non-empty string index
BadChangeSetAnswer(resp) ==
    \/ resp.status # 200
    \/ resp.data.index \in {NoId, NonStringIndex}

\* C22: when the changeset lookup gets no response, a status other than 200
\* or a body without a non-empty string index, the run is reported failed
\* and the lookup stays its last request: uploadSealFile is never called and
\* no upload, archive or PATCH request is issued; a run goes on to its files
\* only with a string index
C22_ChangeSetLookupFatal ==
    /\ (ChangeSetAnswered /\ BadChangeSetAnswer(response)) =>
           /\ outcome = "failed"
           /\ failureMessage \in {MsgChangeSet, MsgChangeSetIndex}
           /\ pc \in {"done", "cleanup"}
           /\ attempts = << >>
    /\ failureMessage \in {MsgChangeSet, MsgChangeSetIndex} =>
           /\ ChangeSetAnswered
           /\ ~Issued("upload") /\ ~Issued("archive") /\ ~Issued("patch")
    /\ attempts # << >> => changeSetIndex \notin {NoId, NonStringIndex}

\* the lookup was answered 404 for the resolved entity of an artifact run
C22_Witness ==
    /\ action = "artifact"
    /\ ChangeSetAnswered
    /\ response.status = 404
    /\ entity.id # NoId
    /\ nFiles = 2
    /\ pc = "done"
    /\ outcome = "failed"
    /\ Len(requests) = 2

----------------------------------------------------------------------------
(* Two runs of the artifact action for the same pull request.  Both        *)
(* resolve the same entity; the platform holds one value of the target     *)
(* field, one set of archived files and one sequence of file ids.  Each    *)
(* step is one awaited call of a run together with its effect on the       *)
(* platform, and the steps of the two runs interleave freely.              *)

RunIds == {1, 2}

\* a run before its search: nFiles files to process
RaceRun(n) ==
    [ pc |-> "search", nFiles |-> n, fileIdx |-> 0, prior |-> << >>,
      refs |-> << >>, failedCount |-> 0, outcome |-> "running" ]

RacePayload_merge(run) ==
    (IF run.prior = << >> THEN << >> ELSE run.prior[1]) \o run.refs

\* `const payload = { value: fileReferences }` with the uploadedFileRefs of
\* the run
RacePayload(run) == run.refs

InitRace ==
    /\ \E n1, n2 \in 1..MaxFiles :
          race = [runs |-> << RaceRun(n1), RaceRun(n2) >>, applied |-> << >>]
    /\ sealField \in FieldValues
    /\ sealArchived = {}
    /\ sealFiles = 0
    /\ call = NoCall
    /\ returned = << >>
    /\ action = "artifact"
    /\ env = Env("", "", "", "", "")
    /\ github = [ eventName |-> "pull_request", pull_request |-> TRUE, number |-> 7,
                  headRef |-> "", baseRef |-> "", workspace |-> "" ]
    /\ templateId = NoId
    /\ pc = "race"
    /\ foundFiles = << >>
    /\ nFiles = 0
    /\ fileIdx = 0
    /\ entity = NoEntity
    /\ changeSetIndex = NoId
    /\ fileId = NoId
    /\ uploadedFileRefs = << >>
    /\ processingFailedCount = 0
    /\ archiveTasks = << >>
    /\ response = NoResponse
    /\ requests = << >>
    /\ attempts = << >>
    /\ sealFilenames = << >>
    /\ snapshotDir = "none"
    /\ outcome = "running"
    /\ failureMessage = ""
    /\ failureParts = << >>
    /\ sealChangeSet = {}

\* what a step of a run leaves alone
RaceFrame ==
    UNCHANGED << action, env, github, templateId, pc, foundFiles, nFiles,
                 fileIdx, entity, changeSetIndex, fileId, uploadedFileRefs,
                 processingFailedCount, archiveTasks, response, requests,
                 attempts, sealFilenames, snapshotDir, outcome,
                 failureMessage, failureParts, sealChangeSet, call, returned >>

\* findSealEntity and getSealEntityChangeSetIndex of run i: the entity
\* carries the value the field has now; a failure ends the run
RaceSearch(i) ==
    /\ race.runs[i].pc = "search"
    /\ \E ok \in BOOLEAN :
          race' = [race EXCEPT !.runs[i] =
                       IF ok THEN [@ EXCEPT !.pc = "files", !.prior = sealField]
                       ELSE [@ EXCEPT !.pc = "done", !.outcome = "failed"]]
    /\ UNCHANGED << sealField, sealArchived, sealFiles >>
    /\ RaceFrame

\* the end of the for loop of run i: Step 4 starts with archiveEntities, or
\* the run ends for want of a reference
RaceLoopEnd(run) ==
    IF run.fileIdx < run.nFiles THEN run
    ELSE IF Len(run.refs) = 0
         THEN [run EXCEPT !.pc = "done", !.outcome = "failed"]
         ELSE [run EXCEPT !.pc = "archive"]

\* one iteration of the for loop of run i: the file is uploaded, added to
\* the changeset and its version read (here always answered), or the
\* iteration fails
RaceFile(i) ==
    /\ race.runs[i].pc = "files"
    /\ \E ok \in BOOLEAN,
          resp \in { r \in VersionResponses : r.status = 200 /\ r.data.version >= 0 } :
          IF ok
          THEN /\ sealFiles' = sealFiles + 1
               /\ race' = [race EXCEPT !.runs[i] =
                               RaceLoopEnd([@ EXCEPT
                                   !.fileIdx = @ + 1,
                                   !.refs = Append(@, Ref(NewIds[sealFiles + 1],
                                                          getSealFileVersion(resp)))])]
          ELSE /\ sealFiles' = sealFiles
               /\ race' = [race EXCEPT !.runs[i] =
                               RaceLoopEnd([@ EXCEPT !.fileIdx = @ + 1,
                                                     !.failedCount = @ + 1])]
    /\ UNCHANGED << sealField, sealArchived >>
    /\ RaceFrame

\* archiveEntities of run i: the references the run read at its search are
\* archived, each request with its own outcome
RaceArchive(i) ==
    /\ race.runs[i].pc = "archive"
    /\ LET prior == IF race.runs[i].prior = << >> THEN << >> ELSE race.runs[i].prior[1]
           ids == { prior[k].id : k \in 1..Len(prior) } \ { NoId }
       IN  \E done \in SUBSET ids : sealArchived' = sealArchived \cup done
    /\ race' = [race EXCEPT !.runs[i].pc = "patch"]
    /\ UNCHANGED << sealField, sealFiles >>
    /\ RaceFrame

\* linkFilesToEntityField of run i: the platform answers the PATCH; with 200
\* it has replaced the value of the field by the payload
RacePatch(i) ==
    /\ race.runs[i].pc = "patch"
    /\ \E resp \in StatusResponses :
          LET r == linkFilesToEntityField(resp)
          IN  /\ sealField' = IF resp.status = 200
                              THEN << RacePayload(race.runs[i]) >>
                              ELSE sealField
              /\ race' = [race EXCEPT
                              !.runs[i].pc = "done",
                              !.runs[i].outcome = IF r.ok THEN "success" ELSE "failed",
                              !.applied = IF resp.status = 200 THEN Append(@, i) ELSE @]
    /\ UNCHANGED << sealArchived, sealFiles >>
    /\ RaceFrame

NextRace ==
    \E i \in RunIds :
        \/ RaceSearch(i)
        \/ RaceFile(i)
        \/ RaceArchive(i)
        \/ RacePatch(i)

SpecRace == InitRace /\ [][NextRace]_vars
----------------------------------------------------------------------------
\* C23: each fatal client function throws and returns no value when the
\* status of the answer is outside its accepted set: 200 for search,
\* changeset lookup, add-to-changeset and field patch, 200 and 201 for file
\* upload.  A status the HTTP layer raises (500 and above, or no response)
\* gives the error of the function's catch block, a delivered status (below
\* 500) gives the error of its status check.
C23_UnacceptedStatusRaises ==
    \A k \in 1..Len(returned) :
        LET status == call.response.status
            accepted == IF call.op = "upload" THEN {200, 201} ELSE {200}
            raisedError ==
                CASE call.op = "search" -> MsgSearchRaised
                  [] call.op = "changeset" -> MsgChangeSet
                  [] call.op = "upload" -> MsgUploadRaised
                  [] call.op = "add" -> MsgAdd
                  [] call.op = "patch" -> MsgLinkRaised
            statusError ==
                CASE call.op = "search" -> MsgSearchStatus
                  [] call.op = "changeset" -> MsgChangeSet
                  [] call.op = "upload" -> MsgUploadStatus
                  [] call.op = "add" -> MsgAdd
                  [] call.op = "patch" -> MsgLinkStatus
        IN  (call.op \in FatalOps /\ status \notin accepted
                 /\ Len(Sent(call)) > 0)
                => /\ ~returned[k].ok
                   /\ returned[k].value = NoId
                   /\ returned[k].error =
                          (IF status = 0 \/ status >= 500 THEN raisedError
                           ELSE statusError)

\* a field patch answered 201 has thrown the error of the status check
C23_Witness ==
    /\ call.op = "patch"
    /\ call.response.status = 201
    /\ Len(returned) = 2
    /\ ~returned[2].ok
    /\ returned[2].error = MsgLinkStatus

\* the upload was the last request and has been answered: response holds
\* its answer
UploadAnswered ==
    /\ pc # "upload"
    /\ requests # << >>
    /\ requests[Len(requests)].op = "upload"

\* C24: an answer with an accepted status and a malformed body is an error
\* of the function, not a return value: a search answered 200 with a body
\* that is not an array fails the run, a changeset lookup answered 200
\* without a string index fails the run, and an upload answered 200 or 201
\* without an id is an error of that file (counted by the artifact action,
\* fatal in the snapshot action) with no add-to-changeset request for it.
\* So a run reaches its files only with a string changeset index, and every
\* add-to-changeset request, version request and reference carries an id.
C24_MalformedBodyRaises ==
    /\ (SearchAnswered /\ response.status = 200 /\ response.data.kind # "array") =>
           /\ outcome = "failed"
           /\ failureMessage = MsgSearchFormat
           /\ ~Resolved
    /\ (ChangeSetAnswered /\ response.status = 200
            /\ response.data.index \in {NoId, NonStringIndex}) =>
           /\ outcome = "failed"
           /\ failureMessage = MsgChangeSetIndex
           /\ attempts = << >>
    /\ (UploadAnswered /\ response.status \in {200, 201} /\ response.data.id = NoId) =>
           /\ fileId = NoId
           /\ \A k \in 1..Len(requests) :
                  requests[k].op = "add" =>
                      requests[k].file # requests[Len(requests)].file
           /\ IF action = "artifact" THEN processingFailedCount >= 1
              ELSE outcome = "failed" /\ failureMessage = MsgUploadId
    /\ attempts # << >> => changeSetIndex \notin {NoId, NonStringIndex}
    /\ pc \in {"add", "version"} => fileId # NoId
    /\ \A k \in 1..Len(requests) :
           requests[k].op \in {"add", "version"} => requests[k].id # NoId
    /\ \A i \in 1..Len(uploadedFileRefs) : uploadedFileRefs[i].id # NoId

\* the upload of the first of two files was answered 201 without an id: the
\* artifact action counted the failure and went on to the second file
C24_Witness ==
    /\ action = "artifact"
    /\ UploadAnswered
    /\ response.status = 201
    /\ response.data.id = NoId
    /\ pc = "hash"
    /\ fileIdx = 2
    /\ processingFailedCount = 1
    /\ ~Issued("add")

\* a required input of the action is not set
RequiredInputMissing ==
    \/ env.seal_api_token = ""
    \/ env.seal_api_base_url = ""
    \/ env.seal_template_id = ""
    \/ (action = "artifact" /\ env.artifact_patterns = "")

C27_NormalizedBaseUrl ==
    LET u == call.apiUrl
        baseUrl == normalizeApiUrl(u)
    IN  /\ call.op # "none" =>
               /\ EndsWithSlash(baseUrl)
               /\ EndsWithSlash(u) => baseUrl = u
               /\ normalizeApiUrl(baseUrl) = baseUrl
               /\ ~EndsWithSlash(u) =>
                      (Len(baseUrl) = Len(u) + 1 /\ SubSeq(baseUrl, 1, Len(u)) = u)
        /\ \A k \in 1..Len(returned) :
               LET url == returned[k].url
               IN  Len(Sent(call)) > 0 =>
                       /\ Len(url) = Len(baseUrl) + 1
                       /\ SubSeq(url, 1, Len(baseUrl)) = baseUrl
                       /\ url[Len(url)] = Path(call.op)
                       /\ url[Len(url) - 1] = "/"

\* the archive request of a base URL without a final '/' went to the base
\* URL, a '/' and the archive path
C27_Witness ==
    /\ call.op = "archive"
    /\ call.apiUrl = << "/", "h" >>
    /\ Len(returned) = 1
    /\ returned[1].url = << "/", "h", "/", "entities/{entityId}/archive" >>

\* a base URL that ends with '/' is used as it is
C27_WitnessUnchanged ==
    /\ call.op = "upload"
    /\ call.apiUrl = << "h", "/" >>
    /\ Len(returned) = 1
    /\ returned[1].url = << "h", "/", "files" >>

\* the snapshot action has read its inputs and has a pull-request context,
\* with its required inputs set: what remains to decide is the archive type
SnapshotTypeDecided ==
    /\ action = "snapshot"
    /\ pc # "init"
    /\ env.seal_api_token # "" /\ env.seal_api_base_url # ""
    /\ env.seal_template_id # ""
    /\ ContextPresent

\* C28: the snapshot action goes on to create its archive when archive_type
\* is 'zip', 'tar.gz' or unset, and ends with the startup error about the
\* archive type for every other value
C28_ArchiveTypesOfReadme ==
    SnapshotTypeDecided =>
        IF env.archive_type \in {"", "zip", "tar.gz"}
        THEN failureMessage # MsgArchiveType /\ failureMessage # MsgInputRequired
        ELSE /\ pc = "done"
             /\ outcome = "failed"
             /\ failureMessage = MsgArchiveType

\* the prior references whose archive request was answered with 200
ArchivedPrior ==
    { entity.field[1][i].id :
          i \in { k \in 1..Len(archiveTasks) : archiveTasks[k] = "success" } }

\* C29: when the PATCH fails after the archival step the run is failed and
\* nothing is undone: the platform's value of the field is the one the
\* resolved entity carried before the run, every prior reference whose
\* archive request succeeded is archived, and the PATCH stays the last
\* request of the run
C29_NoRollback ==
    (PatchAnswered /\ response.status # 200) =>
        /\ outcome = "failed"
        /\ failureMessage \in {MsgLinkRaised, MsgLinkStatus}
        /\ sealField = entity.field
        /\ sealArchived = ArchivedPrior
        /\ requests[Len(requests)].op = "patch"

\* both prior references were archived, the PATCH was answered 500: the
\* field still holds the two references, now of archived files
C29_Witness ==
    /\ PatchAnswered
    /\ response.status = 500
    /\ outcome = "failed"
    /\ Len(PriorIdsToArchive) = 2
    /\ sealArchived = {"f1", "f2"}
    /\ sealField # << >>
    /\ { sealField[1][i].id : i \in 1..Len(sealField[1]) } = sealArchived

\* C30: an archive request is issued only after a file of this run was
\* uploaded and added to the changeset: before every archive request there
\* is an add-to-changeset request that the platform accepted for a file it
\* created in this run; in the artifact action the list of collected
\* references is then not empty, in the snapshot action the one upload and
\* its add-to-changeset request both succeeded
C30_ArchiveOnlyWithSomethingToLink ==
    /\ \A k \in 1..Len(requests) :
           requests[k].op = "archive" =>
               \E j \in 1..(k - 1) :
                   /\ requests[j].op = "add"
                   /\ requests[j].id \in (UploadedIds \cap sealChangeSet)
    /\ Issued("archive") =>
           IF action = "artifact"
           THEN /\ Len(uploadedFileRefs) >= 1
                /\ CollectedIds \subseteq (UploadedIds \cap sealChangeSet)
           ELSE /\ fileId \in (UploadedIds \cap sealChangeSet)
                /\ Count("upload") = 1 /\ Count("add") = 1

\* the artifact action archives the two prior references after one of its
\* two files failed and the other was collected
C30_Witness ==
    /\ action = "artifact"
    /\ Count("archive") = 2
    /\ processingFailedCount = 1
    /\ Len(uploadedFileRefs) = 1
    /\ pc = "archive"

\* archiveEntities has been called in this run
ArchivalEntered ==
    \/ pc = "archive"
    \/ Issued("patch")
    \/ (action = "snapshot" /\ Issued("version"))

\* C31: the archive requests of a run are, in field order, one for each
\* element with an id of the prior value of the target field that the
\* resolved entity carries: none before the archival step, none for an
\* element without an id, none when the prior value is absent or empty, and
\* none for any other entity, be it the resolved entity or a file that the
\* platform created in this run
C31_ArchiveExactlyPrior ==
    /\ IdsRequested("archive") =
           (IF ArchivalEntered THEN PriorIdsToArchive ELSE << >>)
    /\ Count("archive") =
           Cardinality({ i \in 1..Len(PriorValue) : PriorValue[i].id # NoId })
               * (IF ArchivalEntered THEN 1 ELSE 0)
    /\ \A k \in 1..Len(requests) :
           requests[k].op = "archive" =>
               /\ requests[k].id # NoId
               /\ \E i \in 1..Len(PriorValue) : PriorValue[i].id = requests[k].id
               /\ requests[k].id \notin UploadedIds
               /\ requests[k].id # entity.id
    /\ (ArchivalEntered /\ (entity.field = << >> \/ PriorValue = << >>)) =>
           ~Issued("archive")

\* the prior value holds an element without an id and one with an id: one
\* archive request was issued, for the second element
C31_Witness ==
    /\ Len(PriorValue) = 2
    /\ PriorValue[1].id = NoId
    /\ PriorValue[2].id = "f2"
    /\ sealFiles >= 1
    /\ IdsRequested("archive") = << "f2" >>
    /\ archiveTasks[1] = "skipped"

\* the field is present with an empty value: the run reached the PATCH
\* without an archive request
C31_WitnessEmpty ==
    /\ entity.field = << << >> >>
    /\ Issued("patch")
    /\ ~Issued("archive")

\* the place of each external call in the snapshot action
Rank(op) ==
    CASE op = "search" -> 1
      [] op = "changeset" -> 2
      [] op = "upload" -> 3
      [] op = "add" -> 4
      [] op = "archive" -> 5
      [] op = "version" -> 6
      [] op = "patch" -> 7

\* the last request of the run is of this kind and has been answered
LastAnswered(op) ==
    /\ requests # << >>
    /\ requests[Len(requests)].op = op
    /\ pc # op

\* C32: in the snapshot action the requests are issued in the order search,
\* changeset lookup, upload, add-to-changeset, archive requests, version
\* fetch, PATCH, each of them once except the archive requests; a request is
\* issued only when search, changeset lookup, upload and add-to-changeset,
\* as far as they precede it, have succeeded; and when one of these four
\* fails the run is failed and that request stays the last one
C32_SnapshotCallOrder ==
    action = "snapshot" =>
        /\ \A j, k \in 1..Len(requests) :
               j < k =>
                   /\ Rank(requests[j].op) <= Rank(requests[k].op)
                   /\ Rank(requests[j].op) = Rank(requests[k].op) =>
                          requests[k].op = "archive"
        /\ \A k \in 1..Len(requests) :
               \A op \in {"search", "changeset", "upload", "add"} :
                   Rank(op) < Rank(requests[k].op) => Issued(op)
        /\ Issued("patch") => Issued("version")
        /\ Issued("changeset") => entity # NoEntity
        /\ Issued("upload") => changeSetIndex \notin {NoId, NonStringIndex}
        /\ Issued("add") => fileId \in UploadedIds
        /\ (Issued("archive") \/ Issued("version")) => fileId \in sealChangeSet
        /\ LastAnswered("search") =>
               (outcome = "failed" /\ pc \in {"cleanup", "done"})
        /\ (LastAnswered("changeset") /\ pc # "hash") =>
               (outcome = "failed" /\ pc \in {"cleanup", "done"})
        /\ LastAnswered("upload") =>
               (outcome = "failed" /\ pc \in {"cleanup", "done"})
        /\ LastAnswered("add") =>
               (outcome = "failed" /\ pc \in {"cleanup", "done"})
        /\ outcome = "failed" => pc \in {"cleanup", "done"}

\* a complete snapshot run: seven kinds of call in order, two of them
\* archive requests
C32_Witness ==
    /\ action = "snapshot"
    /\ outcome = "success"
    /\ Len(requests) = 8
    /\ [k \in 1..8 |-> requests[k].op] =
           << "search", "changeset", "upload", "add", "archive", "archive",
              "version", "patch" >>

\* the add-to-changeset request of the snapshot failed and stayed the last
C32_WitnessFailed ==
    /\ action = "snapshot"
    /\ outcome = "failed"
    /\ failureMessage = MsgAdd
    /\ Len(requests) = 4
    /\ Len(PriorIdsToArchive) = 2

\* C33: an entity that the resolver returned has a non-empty id, so the
\* changeset lookup and the PATCH are requested for an entity id
C33_ResolvedEntityHasId ==
    /\ Resolved => entity.id # NoId
    /\ \A k \in 1..Len(requests) :
           requests[k].op \in {"changeset", "patch"} => requests[k].id # NoId

\* the ids of a list of references
RefIds(refs) == { refs[k].id : k \in 1..Len(refs) }

\* both runs have ended with a PATCH answered 200
BothPatched ==
    /\ Len(race.runs) = 2
    /\ \A i \in RunIds :
           race.runs[i].pc = "done" /\ race.runs[i].outcome = "success"

\* C34: when two runs for the same pull request interleave and the PATCH of
\* each is answered 200, the field holds in the end the complete reference
\* list of the run whose PATCH was applied last, in its order, and no
\* reference of the other run
C34_LastPatchWins ==
    BothPatched =>
        LET last == race.applied[Len(race.applied)]
            other == 3 - last
        IN  /\ Len(race.applied) = 2
            /\ sealField = << race.runs[last].refs >>
            /\ RefIds(sealField[1]) \cap RefIds(race.runs[other].refs) = {}
            /\ race.runs[other].refs # << >>

\* both runs read the same prior value, run 2 patched first and run 1 last:
\* the field holds the two references of run 1
C34_Witness ==
    /\ BothPatched
    /\ race.applied = << 2, 1 >>
    /\ race.runs[1].prior = race.runs[2].prior
    /\ Len(race.runs[1].refs) = 2
    /\ Len(race.runs[2].refs) = 1
    /\ sealField = << race.runs[1].refs >>

\* the run is over with one of its three outcomes
Terminated == pc = "done" /\ outcome \in {"noop", "success", "failed"}

\* C35: when every awaited call settles, every run of either action, for
\* every list of found files and every outcome of every call, reaches its
\* end with one outcome (no-op, success or failed) and keeps it
C35_RunTerminates == <>[]Terminated

\* an outcome that has been reported is never replaced by another
C35_OutcomeKept ==
    [][outcome # "running" => outcome' = outcome]_vars

\* a run of the artifact action over two files has ended
C35_Witness ==
    /\ Terminated
    /\ action = "artifact"
    /\ nFiles = 2
    /\ Len(attempts) = 2
    /\ outcome = "success"

\* the positions in foundFiles of the files that were processed without
\* error: uploaded, added to the changeset, and asked for their version
ProcessedFiles ==
    { requests[m].file : m \in { n \in 1..Len(requests) : requests[n].op = "version" } }

\* the position in foundFiles of the file whose upload returned this id
FileOfId(id) ==
    CHOOSE f \in 1..nFiles :
        \E m \in 1..Len(requests) :
            requests[m].op = "add" /\ requests[m].id = id /\ requests[m].file = f

\* C36: in the artifact action the references of the PATCH payload are
\* those of the files processed without error, one for each, in the order
\* in which the files were found
C36_PayloadInDiscoveryOrder ==
    action = "artifact" =>
        \A k \in 1..Len(requests) :
            requests[k].op = "patch" =>
                LET value == requests[k].value
                IN  /\ \A i \in 1..Len(value) :
                           \E m \in 1..Len(requests) :
                               /\ requests[m].op = "add"
                               /\ requests[m].id = value[i].id
                    /\ \A i, j \in 1..Len(value) :
                           i < j => FileOfId(value[i].id) < FileOfId(value[j].id)
                    /\ { FileOfId(value[i].id) : i \in 1..Len(value) } = ProcessedFiles
                    /\ Len(value) = Cardinality(ProcessedFiles)

\* both files were processed: the payload holds the reference of the first
\* found file, then that of the second
C36_Witness ==
    /\ action = "artifact"
    /\ Issued("patch")
    /\ nFiles = 2
    /\ ProcessedFiles = {1, 2}
    /\ Len(requests[Len(requests)].value) = 2
    /\ FileOfId(requests[Len(requests)].value[1].id) = 1
    /\ FileOfId(requests[Len(requests)].value[2].id) = 2
\* C37: linkFilesToEntityField called with an empty reference list sends no
\* PATCH request and returns without an error, whatever the platform would
\* have answered, so the target field keeps the value it had before the
\* call; called with references it sends the list it was given
C37_EmptyListNotLinked ==
    call.op = "patch" =>
        /\ call.fileReferences = << >> =>
               /\ Sent(call) = << >>
               /\ sealField = call.field
               /\ \A k \in 1..Len(returned) :
                      /\ returned[k].ok
                      /\ returned[k].error = ""
                      /\ returned[k].url = << >>
        /\ sealField # call.field => sealField[1] # << >>

\* the field held references, the function was called twice with no
\* reference while the platform would have accepted a PATCH, and the field
\* still holds them
C37_Witness ==
    /\ call.op = "patch"
    /\ call.fileReferences = << >>
    /\ call.response.status = 200
    /\ call.field # << >>
    /\ Len(call.field[1]) > 0
    /\ Len(returned) = 2
    /\ returned[2].ok
    /\ sealField = call.field

\* what C38 requires of the event for a context to be returned
PullRequestDataComplete ==
    /\ github.eventName \in {"pull_request", "pull_request_target"}
    /\ github.pull_request
    /\ github.number # 0
    /\ github.headRef # ""
    /\ github.baseRef # ""
    /\ github.workspace # ""

\* C38: getPullRequestContext returns a context exactly when the event is
\* pull_request or pull_request_target, payload.pull_request is present and
\* the PR number, the head ref, the base ref and GITHUB_WORKSPACE are all
\* present and non-empty; the context carries that number and workspace; in
\* every other case it returns null, and a run that got null sends no request
C38_ContextIffComplete ==
    LET context == getPullRequestContext(github)
    IN  /\ context.present <=> PullRequestDataComplete
        /\ context.present =>
               /\ context.prNumber = github.number
               /\ context.workspace = github.workspace
        /\ ~context.present => context = NoContext
        /\ (pc \notin {"init", "client", "race"} /\ requests # << >>)
               => PullRequestDataComplete

\* a run of a pull_request_target event with complete data got its context
\* and sent its search
C38_Witness ==
    /\ github.eventName = "pull_request_target"
    /\ PullRequestDataComplete
    /\ getPullRequestContext(github).present
    /\ Len(requests) > 0
    /\ requests[1].op = "search"

\* a run of a pull_request event without payload.pull_request got null and
\* ended without a request
C38_WitnessNull ==
    /\ github.eventName = "pull_request"
    /\ ~github.pull_request
    /\ github.number # 0 /\ github.headRef # "" /\ github.baseRef # ""
    /\ github.workspace # ""
    /\ getPullRequestContext(github) = NoContext
    /\ pc = "done"
    /\ requests = << >>

\* C39: the step that ends the cleanup of the snapshot run, whether fs.rm
\* removed the scratch directory or failed, leaves the outcome decided
\* before it and its failure message as they are: a successful run stays
\* successful, a failed run keeps the message of its first failure
C39_CleanupKeepsOutcome ==
    [][pc = "cleanup" =>
          /\ outcome \in {"success", "failed"}
          /\ outcome' = outcome
          /\ failureMessage' = failureMessage
          /\ pc' = "done"]_vars

\* a snapshot run failed at its upload, the scratch directory could not be
\* removed, and the run is over with the failure of the upload
C39_Witness ==
    /\ action = "snapshot"
    /\ pc = "done"
    /\ snapshotDir = "left"
    /\ outcome = "failed"
    /\ failureMessage \in {MsgUploadRaised, MsgUploadStatus}

\* a snapshot run succeeded, the scratch directory could not be removed,
\* and the run is over as a success
C39_WitnessSuccess ==
    /\ action = "snapshot"
    /\ pc = "done"
    /\ snapshotDir = "left"
    /\ outcome = "success"
    /\ failureMessage = ""

====
